---- MODULE Spec2Model ----
(***************************************************************************)
(* Model of the System.register formatter (src/index.js).  A module is a   *)
(* program body (a sequence of syntax-tree nodes) together with the        *)
(* import/export collections of the upstream analyzer.  The formatter's    *)
(* methods rewrite the body one node at a time, build() wraps the result   *)
(* in a System.register call, and the loader then runs the generated       *)
(* execute function, whose notify calls (__es6_export__) are recorded.     *)
(***************************************************************************)
EXTENDS Integers, Sequences, FiniteSets, TLC

VARIABLES
  config,     \* the constructor's argument
  anonymous,  \* this.anonymous
  mod,        \* the Module record handed in by the analyzer
  body,       \* mod.ast.program.body, rewritten in place
  cursor,     \* index of the next top-level node the rewriter visits
  phase,      \* "rewrite", "built", "failed", "running", "done", "threw"
  failedIn,   \* the method that threw, "" if none
  returned,   \* what build returned: <<>> or <<mod.ast>>
  env,        \* local variables of the running module (name -> value)
  declared,   \* names the running execute function has bindings for
  events,     \* calls of __es6_export__ ("notify") and writes to a local by an
              \* assignment or update ("write"), in order: [kind, name, value]
  completion, \* value of the last expression statement evaluated
  origin      \* history: for each rewritten statement, the index in
              \* mod.source of the statement it comes from

vars == <<config, anonymous, mod, body, cursor, phase, failedIn, returned,
          env, declared, events, completion, origin>>

\* ------------------------------------------------------------------ bounds
MaxBody == 3
MaxShortBody == 2

\* ------------------------------------------------------- JavaScript values
Undefined == [t |-> "undefined", n |-> 0, s |-> ""]
NaN       == [t |-> "NaN", n |-> 0, s |-> ""]
Num(n)    == [t |-> "number", n |-> n, s |-> ""]
Str(s)    == [t |-> "string", n |-> 0, s |-> s]
Fun(s)    == [t |-> "function", n |-> 0, s |-> s]

\* ToString on the values the model holds
ToStr(v) ==
  CASE v.t = "string" -> v.s
    [] v.t = "number" /\ v.n = 1 -> "1"
    [] v.t = "number" /\ v.n = 2 -> "2"
    [] v.t = "number" /\ v.n = 5 -> "5"
    [] v.t = "undefined" -> "undefined"
    [] v.t = "NaN" -> "NaN"
    [] OTHER -> "?"

\* ToNumber: a numeric string converts to the number it spells
ToNumber(v) ==
  CASE v.t = "number" -> v
    [] v.t = "string" /\ v.s = "5" -> Num(5)
    [] v.t = "string" /\ v.s = "51" -> Num(51)
    [] v.t = "string" /\ v.s = "511" -> Num(511)
    [] OTHER -> NaN

\* the binary operators + and - : + concatenates when an operand is a string
Plus(l, r) ==
  IF l.t = "string" \/ r.t = "string" THEN Str(ToStr(l) \o ToStr(r))
  ELSE IF ToNumber(l) = NaN \/ ToNumber(r) = NaN THEN NaN
  ELSE Num(ToNumber(l).n + ToNumber(r).n)

Minus(l, r) ==
  IF ToNumber(l) = NaN \/ ToNumber(r) = NaN THEN NaN
  ELSE Num(ToNumber(l).n - ToNumber(r).n)

\* --------------------------------------------------- syntax-tree builders
Null == [type |-> "Null"]
identifier(name) == [type |-> "Identifier", name |-> name]
literal(v) == [type |-> "Literal", value |-> v]
expressionStatement(e) == [type |-> "ExpressionStatement", expression |-> e]
callExpression(callee, args) ==
  [type |-> "CallExpression", callee |-> callee, arguments |-> args]
memberExpression(obj, prop, computed) ==
  [type |-> "MemberExpression", object |-> obj, property |-> prop,
   computed |-> computed]
assignmentExpression(op, l, r) ==
  [type |-> "AssignmentExpression", operator |-> op, left |-> l, right |-> r]
updateExpression(op, arg, prefix) ==
  [type |-> "UpdateExpression", operator |-> op, argument |-> arg,
   prefix |-> prefix]
binaryExpression(op, l, r) ==
  [type |-> "BinaryExpression", operator |-> op, left |-> l, right |-> r]
sequenceExpression(es) == [type |-> "SequenceExpression", expressions |-> es]
functionExpression(id, params, blk) ==
  [type |-> "FunctionExpression", id |-> id, params |-> params, body |-> blk]
functionDeclaration(id, params, blk) ==
  [type |-> "FunctionDeclaration", id |-> id, params |-> params, body |-> blk]
classDeclaration(id) == [type |-> "ClassDeclaration", id |-> id]
blockStatement(stmts) == [type |-> "BlockStatement", body |-> stmts]
variableDeclarator(id, init) ==
  [type |-> "VariableDeclarator", id |-> id, init |-> init]
variableDeclaration(kind, decls) ==
  [type |-> "VariableDeclaration", kind |-> kind, declarations |-> decls]
emptyStatement == [type |-> "EmptyStatement"]
returnStatement(arg) == [type |-> "ReturnStatement", argument |-> arg]
arrayExpression(elts) == [type |-> "ArrayExpression", elements |-> elts]
property(kind, key, val) ==
  [type |-> "Property", kind |-> kind, key |-> key, value |-> val]
objectExpression(props) == [type |-> "ObjectExpression", properties |-> props]

\* nodes only the parser produces
importDeclaration(specs, path) ==
  [type |-> "ImportDeclaration", specifiers |-> specs,
   source |-> literal(Str(path))]
importSpecifier(from, local) == [name |-> local, from |-> from]
exportSpecifier(id, name) ==
  [type |-> "ExportSpecifier", id |-> id, name |-> name]
exportDeclaration(default, decl, specs, source) ==
  [type |-> "ExportDeclaration", default |-> default, declaration |-> decl,
   specifiers |-> specs, source |-> source]

notifyCall(name, value) ==
  callExpression(identifier("__es6_export__"), <<literal(Str(name)), value>>)

\* ------------------------------------------------------- dependency modules
\* Module records of the dependencies, as the analyzer resolved them
NoModule == [id |-> "", relativePath |-> ""]
ModA == [id |-> "a$$", relativePath |-> "a.js"]
ModB == [id |-> "b$$", relativePath |-> "b.js"]
ModGhost == [id |-> "ghost$$", relativePath |-> "ghost.js"]

\* mod.getModule: two authored paths may resolve to one Module
getModule(path) ==
  CASE path = "./a" -> ModA
    [] path = "./a.js" -> ModA
    [] path = "./b" -> ModB
    [] OTHER -> NoModule

\* ------------------------------------------------------- input statements
IdA == identifier("a")
One == literal(Num(1))

\* var a = 1;
VarA == variableDeclaration("var", <<variableDeclarator(IdA, One)>>)
\* export var a = 5, c;
ExportVarA ==
  exportDeclaration(FALSE,
    variableDeclaration("var", <<variableDeclarator(IdA, literal(Num(5))),
                                 variableDeclarator(identifier("c"), Null)>>),
    <<>>, Null)
\* export var a = "5";
ExportVarStr ==
  exportDeclaration(FALSE,
    variableDeclaration("var", <<variableDeclarator(IdA, literal(Str("5")))>>),
    <<>>, Null)
\* export {a as b};
ExportListAB ==
  exportDeclaration(FALSE, Null, <<exportSpecifier(IdA, identifier("b"))>>, Null)
\* export {a, a as d};
ExportListTwo ==
  exportDeclaration(FALSE, Null,
    <<exportSpecifier(IdA, Null), exportSpecifier(IdA, identifier("d"))>>, Null)
\* export {a};
ExportListA == exportDeclaration(FALSE, Null, <<exportSpecifier(IdA, Null)>>, Null)
\* a = a + 1;   ++a;   --a;   a++;   a--;
Assign  == expressionStatement(assignmentExpression("=", IdA, binaryExpression("+", IdA, One)))
PreInc  == expressionStatement(updateExpression("++", IdA, TRUE))
PreDec  == expressionStatement(updateExpression("--", IdA, TRUE))
PostInc == expressionStatement(updateExpression("++", IdA, FALSE))
PostDec == expressionStatement(updateExpression("--", IdA, FALSE))

\* import {x} from "./a";   import * as ns from "./a.js";   import "./b";
\* import {y as z} from "./b";
ImportX    == importDeclaration(<<importSpecifier("x", "x")>>, "./a")
ImportNs   == importDeclaration(<<importSpecifier("", "ns")>>, "./a.js")
ImportBare == importDeclaration(<<>>, "./b")
ImportYZ   == importDeclaration(<<importSpecifier("y", "z")>>, "./b")
\* export {x as w} from "./a.js";   export {v} from "./b";   export {} from "./b";
ReExportXW ==
  exportDeclaration(FALSE, Null, <<exportSpecifier(identifier("x"), identifier("w"))>>,
                    literal(Str("./a.js")))
ReExportV ==
  exportDeclaration(FALSE, Null, <<exportSpecifier(identifier("v"), Null)>>,
                    literal(Str("./b")))
ReExportNone == exportDeclaration(FALSE, Null, <<>>, literal(Str("./b")))
\* export function f() {}
ExportFunction ==
  exportDeclaration(FALSE,
    functionDeclaration(identifier("f"), <<>>, blockStatement(<<>>)), <<>>, Null)
\* export default function (p, q) { return p + q; }
AnonymousFunction ==
  functionExpression(Null, <<identifier("p"), identifier("q")>>,
    blockStatement(<<returnStatement(
      binaryExpression("+", identifier("p"), identifier("q")))>>))
ExportDefaultAnonymous == exportDeclaration(TRUE, AnonymousFunction, <<>>, Null)
\* export default class K {}
ExportDefaultNamed ==
  exportDeclaration(TRUE, classDeclaration(identifier("K")), <<>>, Null)
\* an export statement around a declaration kind the formatter does not know
ExportUnexpected ==
  exportDeclaration(FALSE, [type |-> "ModuleDeclaration", id |-> identifier("q")],
                    <<>>, Null)

\* statements about the local variable a and its exports
RuntimeVocabulary ==
  {VarA, ExportVarA, ExportVarStr, ExportListAB, ExportListA,
   Assign, PreInc, PreDec, PostInc, PostDec}
\* import and export declarations
StructureVocabulary ==
  {ImportX, ImportNs, ImportBare, ImportYZ, ReExportXW, ReExportV, ReExportNone,
   VarA, ExportListTwo, ExportFunction, ExportDefaultAnonymous,
   ExportDefaultNamed, ExportUnexpected}

\* ------------------------------------------------ the analyzer's collections
RECURSIVE Concat(_)
Concat(ss) == IF ss = <<>> THEN <<>> ELSE Head(ss) \o Concat(Tail(ss))

RECURSIVE Distinct(_)
\* a sequence without its repeated elements, first occurrences kept
Distinct(s) ==
  IF s = <<>> THEN <<>>
  ELSE LET d == Distinct(SubSeq(s, 1, Len(s) - 1))
           x == s[Len(s)]
       IN IF \E i \in 1..Len(d) : d[i] = x THEN d ELSE Append(d, x)

IsImport(node) == node.type = "ImportDeclaration"
IsExport(node) == node.type = "ExportDeclaration"
HasSource(node) == node.source # Null

\* the specifier records (name, from) of one export statement
ExportSpecifiers(node) ==
  IF node.default THEN <<[name |-> "default", from |-> ""]>>
  ELSE IF node.declaration = Null
    THEN [i \in 1..Len(node.specifiers) |->
           LET sp == node.specifiers[i]
           IN [name |-> (IF sp.name # Null THEN sp.name ELSE sp.id).name,
               from |-> sp.id.name]]
  ELSE IF node.declaration.type = "VariableDeclaration"
    THEN [i \in 1..Len(node.declaration.declarations) |->
           LET n == node.declaration.declarations[i].id.name
           IN [name |-> n, from |-> n]]
  ELSE IF node.declaration.type \in {"FunctionDeclaration", "ClassDeclaration"}
    THEN <<[name |-> node.declaration.id.name, from |-> node.declaration.id.name]>>
  ELSE <<>>

\* one record of imports.declarations / exports.declarations
Declaration(node) ==
  [node |-> node,
   source |-> IF HasSource(node) THEN getModule(node.source.value.s) ELSE NoModule,
   sourcePath |-> IF HasSource(node) THEN node.source.value.s ELSE "",
   specifiers |-> IF IsImport(node) THEN node.specifiers ELSE ExportSpecifiers(node)]

Declarations(nodes) == [i \in 1..Len(nodes) |-> Declaration(nodes[i])]

\* names, modules and declarations of the matching statements of a body;
\* ghostName / ghostModule are an upstream inconsistency: a name without a
\* specifier record, a Module no declaration cites
Collection(nodes, ghostName, ghostModule) ==
  LET decls == Declarations(nodes)
      cited == SelectSeq([i \in 1..Len(decls) |-> decls[i].source],
                         LAMBDA m : m # NoModule)
  IN [declarations |-> decls,
      names |-> Concat([i \in 1..Len(decls) |->
                         [j \in 1..Len(decls[i].specifiers) |->
                           decls[i].specifiers[j].name]])
                \o (IF ghostName THEN <<"ghost">> ELSE <<>>),
      modules |-> Distinct(cited \o (IF ghostModule THEN <<ModGhost>> ELSE <<>>))]

\* collection.findSpecifierByName: the first specifier record of that name,
\* with its back-reference to the declaration, or Null
findSpecifierByName(collection, name) ==
  LET ds == collection.declarations
      all == Concat([i \in 1..Len(ds) |->
               [j \in 1..Len(ds[i].specifiers) |->
                 [name |-> ds[i].specifiers[j].name,
                  from |-> ds[i].specifiers[j].from,
                  declaration |-> ds[i]]]])
      hits == SelectSeq(all, LAMBDA sp : sp.name = name)
  IN IF hits = <<>> THEN Null ELSE hits[1]

\* the Module record of a source body
Analyze(src, glitch) ==
  [name |-> "component/foo", id |-> "foo$$", relativePath |-> "component/foo.js",
   source |-> src,
   imports |-> Collection(SelectSeq(src, IsImport), FALSE, glitch = "importModule"),
   exports |-> Collection(SelectSeq(src, IsExport), glitch = "exportName",
                          glitch = "exportModule")]

\* ------------------------------------------------------ formatter methods
\* SystemFormatter(config): this.anonymous = config && config.anonymous
NoConfig == [given |-> FALSE, anonymous |-> FALSE]
SystemFormatter(cfg) == cfg.given /\ cfg.anonymous

\* defaultExport(mod, declaration): the statements that replace the statement
\* defaultExport without the expression branch of line 155: C7 rejects it
M7_defaultExport(m, declaration) ==
  <<declaration, expressionStatement(notifyCall("default", declaration.id))>>

defaultExport(m, declaration) ==
  IF declaration.type \in {"FunctionDeclaration", "ClassDeclaration"}
  THEN <<declaration,
         expressionStatement(notifyCall("default", declaration.id))>>
  ELSE <<expressionStatement(notifyCall("default", declaration))>>

\* processExportDeclaration without the `dec.init` test of line 192: C6
\* rejects it
M6_processExportDeclaration(m, node) ==
  LET declaration == node.declaration
      specifiers == node.specifiers
  IN IF declaration # Null
        /\ declaration.type \in {"FunctionDeclaration", "ClassDeclaration"}
     THEN [threw |-> FALSE,
           nodes |-> <<declaration,
                       expressionStatement(
                         notifyCall(declaration.id.name, declaration.id))>>]
     ELSE IF declaration # Null /\ declaration.type = "VariableDeclaration"
     THEN [threw |-> FALSE,
           nodes |-> <<[declaration EXCEPT !.declarations =
                         [i \in 1..Len(declaration.declarations) |->
                           LET dec == declaration.declarations[i]
                           IN [dec EXCEPT !.init = notifyCall(dec.id.name, dec.init)]]]>>]
     ELSE IF declaration # Null
     THEN [threw |-> TRUE, nodes |-> <<>>]
     ELSE [threw |-> FALSE,
           nodes |-> [i \in 1..Len(specifiers) |->
                       LET specifier == specifiers[i]
                       IN expressionStatement(
                            notifyCall(
                              (IF specifier.name # Null THEN specifier.name
                               ELSE specifier.id).name,
                              specifier.id))]]

\* processExportDeclaration publishing a listed specifier under its local
\* name instead of `specifier.name || specifier.id` of line 206: C10 rejects it
M10_processExportDeclaration(m, node) ==
  LET declaration == node.declaration
      specifiers == node.specifiers
  IN IF declaration # Null
        /\ declaration.type \in {"FunctionDeclaration", "ClassDeclaration"}
     THEN [threw |-> FALSE,
           nodes |-> <<declaration,
                       expressionStatement(
                         notifyCall(declaration.id.name, declaration.id))>>]
     ELSE IF declaration # Null /\ declaration.type = "VariableDeclaration"
     THEN [threw |-> FALSE,
           nodes |-> <<[declaration EXCEPT !.declarations =
                         [i \in 1..Len(declaration.declarations) |->
                           LET dec == declaration.declarations[i]
                           IN IF dec.type = "VariableDeclarator" /\ dec.init # Null
                              THEN [dec EXCEPT !.init = notifyCall(dec.id.name, dec.init)]
                              ELSE dec]]>>]
     ELSE IF declaration # Null
     THEN [threw |-> TRUE, nodes |-> <<>>]
     ELSE [threw |-> FALSE,
           nodes |-> [i \in 1..Len(specifiers) |->
                       expressionStatement(
                         notifyCall(specifiers[i].id.name, specifiers[i].id))]]

\* processExportDeclaration(mod, nodePath): [threw, nodes], nodes replacing
\* the export statement
processExportDeclaration(m, node) ==
  LET declaration == node.declaration
      specifiers == node.specifiers
  IN IF declaration # Null
        /\ declaration.type \in {"FunctionDeclaration", "ClassDeclaration"}
     THEN [threw |-> FALSE,
           nodes |-> <<declaration,
                       expressionStatement(
                         notifyCall(declaration.id.name, declaration.id))>>]
     ELSE IF declaration # Null /\ declaration.type = "VariableDeclaration"
     THEN [threw |-> FALSE,
           nodes |-> <<[declaration EXCEPT !.declarations =
                         [i \in 1..Len(declaration.declarations) |->
                           LET dec == declaration.declarations[i]
                           IN IF dec.type = "VariableDeclarator" /\ dec.init # Null
                              THEN [dec EXCEPT !.init = notifyCall(dec.id.name, dec.init)]
                              ELSE dec]]>>]
     ELSE IF declaration # Null
     THEN [threw |-> TRUE, nodes |-> <<>>]
     ELSE [threw |-> FALSE,
           nodes |-> [i \in 1..Len(specifiers) |->
                       LET specifier == specifiers[i]
                       IN expressionStatement(
                            notifyCall(
                              (IF specifier.name # Null THEN specifier.name
                               ELSE specifier.id).name,
                              specifier.id))]]

\* processImportDeclaration(mod, nodePath): the statement is removed
processImportDeclaration(m, node) == <<>>

\* processVariableDeclaration, processFunctionDeclaration,
\* processClassDeclaration: null, the declaration is left alone
processDeclaration(m, node) == Null

\* processExportReassignment(mod, nodePath): the expression that replaces
\* an assignment or update, Null for any other node
processExportReassignment(m, node) ==
  IF node.type = "AssignmentExpression"
  THEN notifyCall(node.left.name, node)
  ELSE IF node.type = "UpdateExpression" /\ node.prefix
  THEN notifyCall(node.argument.name, node)
  ELSE IF node.type = "UpdateExpression" /\ ~node.prefix
  THEN sequenceExpression(<<
         notifyCall(node.argument.name,
           binaryExpression(IF node.operator = "++" THEN "+" ELSE "-",
                            node.argument, One)),
         node>>)
  ELSE Null

\* the loop body taking the last declaration that cites the Module instead of
\* the first one `some` stops at (lines 368-373): C11 rejects it
RECURSIVE M11_forEachSourceModule(_, _, _)
M11_forEachSourceModule(declarations, modules, acc) ==
  IF modules = <<>> \/ acc.threw THEN acc
  ELSE LET sourceModule == Head(modules)
           matching == SelectSeq(declarations.declarations,
                                 LAMBDA d : d.source = sourceModule)
       IN IF \E i \in 1..Len(acc.required) : acc.required[i] = sourceModule
          THEN M11_forEachSourceModule(declarations, Tail(modules), acc)
          ELSE IF matching = <<>>
          THEN [acc EXCEPT !.threw = TRUE]
          ELSE M11_forEachSourceModule(declarations, Tail(modules),
                 [threw |-> FALSE,
                  required |-> Append(acc.required, sourceModule),
                  setters |-> Append(acc.setters, identifier(sourceModule.id)),
                  deps |-> Append(acc.deps,
                             literal(Str(matching[Len(matching)].sourcePath)))])

\* the loop body of buildDependenciesMeta over one collection's modules;
\* acc = [threw, required, setters, deps]
RECURSIVE forEachSourceModule(_, _, _)
forEachSourceModule(declarations, modules, acc) ==
  IF modules = <<>> \/ acc.threw THEN acc
  ELSE LET sourceModule == Head(modules)
           matching == SelectSeq(declarations.declarations,
                                 LAMBDA d : d.source = sourceModule)
       IN IF \E i \in 1..Len(acc.required) : acc.required[i] = sourceModule
          THEN forEachSourceModule(declarations, Tail(modules), acc)
          ELSE IF matching = <<>>
          THEN [acc EXCEPT !.threw = TRUE]
          ELSE forEachSourceModule(declarations, Tail(modules),
                 [threw |-> FALSE,
                  required |-> Append(acc.required, sourceModule),
                  setters |-> Append(acc.setters, identifier(sourceModule.id)),
                  deps |-> Append(acc.deps, literal(Str(matching[1].sourcePath)))])

\* buildDependenciesMeta scanning exports before imports: C3 rejects it
M3_buildDependenciesMeta(m) ==
  LET start == [threw |-> FALSE, required |-> <<>>, setters |-> <<>>, deps |-> <<>>]
      afterExports == forEachSourceModule(m.exports, m.exports.modules, start)
      afterImports == forEachSourceModule(m.imports, m.imports.modules, afterExports)
  IN [threw |-> afterImports.threw,
      setters |-> afterImports.setters,
      deps |-> afterImports.deps]

\* buildDependenciesMeta(mod): [threw, setters, deps]
buildDependenciesMeta(m) ==
  LET start == [threw |-> FALSE, required |-> <<>>, setters |-> <<>>, deps |-> <<>>]
      afterImports == forEachSourceModule(m.imports, m.imports.modules, start)
      afterExports == forEachSourceModule(m.exports, m.exports.modules, afterImports)
  IN [threw |-> afterExports.threw,
      setters |-> afterExports.setters,
      deps |-> afterExports.deps]

\* buildImportedVariables(mod)
buildImportedVariables(m) ==
  IF Len(m.imports.names) > 0
  THEN variableDeclaration("var",
         [i \in 1..Len(m.imports.names) |-> identifier(m.imports.names[i])])
  ELSE emptyStatement

\* getFnDeclarationBody(id): fnByModule with a declaration for id
getFnDeclaration(fnByModule, id) ==
  IF \E i \in 1..Len(fnByModule) : fnByModule[i].id.name = id
  THEN fnByModule
  ELSE Append(fnByModule,
         functionDeclaration(identifier(id), <<identifier("m")>>, blockStatement(<<>>)))

\* getFnDeclarationBody(id).push(stmt)
pushToFn(fnByModule, id, stmt) ==
  LET fns == getFnDeclaration(fnByModule, id)
  IN [i \in 1..Len(fns) |->
       IF fns[i].id.name = id
       THEN [fns[i] EXCEPT !.body.body = Append(@, stmt)]
       ELSE fns[i]]

RECURSIVE forEachImportedModule(_, _)
forEachImportedModule(modules, fns) ==
  IF modules = <<>> THEN fns
  ELSE forEachImportedModule(Tail(modules), getFnDeclaration(fns, Head(modules).id))

\* the loop over mod.imports.names; acc = [threw, fns]
RECURSIVE forEachImportName(_, _, _)
forEachImportName(m, names, acc) ==
  IF names = <<>> \/ acc.threw THEN acc
  ELSE LET specifier == findSpecifierByName(m.imports, Head(names))
       IN IF specifier = Null THEN [acc EXCEPT !.threw = TRUE]
          ELSE LET id == getModule(specifier.declaration.node.source.value.s).id
                   stmt == IF specifier.from # ""
                           THEN expressionStatement(assignmentExpression("=",
                                  identifier(specifier.name),
                                  memberExpression(identifier("m"),
                                    literal(Str(specifier.from)), TRUE)))
                           ELSE expressionStatement(assignmentExpression("=",
                                  identifier(specifier.name), identifier("m")))
               IN forEachImportName(m, Tail(names),
                    [acc EXCEPT !.fns = pushToFn(acc.fns, id, stmt)])

\* the loop over mod.exports.names; acc = [threw, fns]
RECURSIVE forEachExportName(_, _, _)
forEachExportName(m, names, acc) ==
  IF names = <<>> \/ acc.threw THEN acc
  ELSE LET specifier == findSpecifierByName(m.exports, Head(names))
       IN IF specifier = Null THEN [acc EXCEPT !.threw = TRUE]
          ELSE IF specifier.declaration.node.source = Null
          THEN forEachExportName(m, Tail(names), acc)
          ELSE LET id == getModule(specifier.declaration.node.source.value.s).id
                   stmt == expressionStatement(
                             notifyCall(specifier.name,
                               memberExpression(identifier("m"),
                                 literal(Str(specifier.from)), TRUE)))
               IN forEachExportName(m, Tail(names),
                    [acc EXCEPT !.fns = pushToFn(acc.fns, id, stmt)])

\* buildSetterFunctionDeclarations running the loop over exports.names before
\* the loop over imports.names: C5 rejects it
M5_buildSetterFunctionDeclarations(m) ==
  LET created == forEachImportedModule(m.imports.modules, <<>>)
      notified == forEachExportName(m, m.exports.names,
                                    [threw |-> FALSE, fns |-> created])
  IN forEachImportName(m, m.imports.names, notified)

\* buildSetterFunctionDeclarations(mod): [threw, fns]
buildSetterFunctionDeclarations(m) ==
  LET created == forEachImportedModule(m.imports.modules, <<>>)
      assigned == forEachImportName(m, m.imports.names,
                                    [threw |-> FALSE, fns |-> created])
  IN forEachExportName(m, m.exports.names, assigned)

UseStrict == expressionStatement(literal(Str("use strict")))

\* the registration without the anonymous branch of line 318: C8 rejects it
M8_registerCall(anon, m, deps, wrapper) ==
  expressionStatement(callExpression(
    memberExpression(identifier("System"), identifier("register"), FALSE),
    <<literal(Str(m.name)), deps, wrapper>>))

\* the System.register(...) statement that build assembles
registerCall(anon, m, deps, wrapper) ==
  expressionStatement(callExpression(
    memberExpression(identifier("System"), identifier("register"), FALSE),
    IF anon THEN <<deps, wrapper>>
    ELSE <<literal(Str(m.name)), deps, wrapper>>))

\* build prepending the strict marker before buildDependenciesMeta runs, so
\* that every failure of build leaves it behind: C9 rejects it
M9_buildModule(anon, m, b) ==
  LET meta == buildDependenciesMeta(m)
      strict == <<UseStrict>> \o b
      fns == buildSetterFunctionDeclarations(m)
      wrapperBlock ==
        <<buildImportedVariables(m)>> \o fns.fns \o
        <<returnStatement(objectExpression(<<
            property("init", literal(Str("setters")), arrayExpression(meta.setters)),
            property("init", literal(Str("execute")),
                     functionExpression(Null, <<>>, blockStatement(strict)))>>))>>
      wrapper == functionExpression(Null, <<identifier("__es6_export__")>>,
                                    blockStatement(wrapperBlock))
      program == <<registerCall(anon, m, arrayExpression(meta.deps), wrapper)>>
  IN IF meta.threw
     THEN [threw |-> TRUE, failedIn |-> "buildDependenciesMeta", body |-> strict,
           returned |-> <<>>]
     ELSE IF fns.threw
     THEN [threw |-> TRUE, failedIn |-> "buildSetterFunctionDeclarations",
           body |-> strict, returned |-> <<>>]
     ELSE [threw |-> FALSE, failedIn |-> "", body |-> program,
           returned |-> <<[program |-> [body |-> program],
                           filename |-> m.relativePath]>>]

\* build(modules), for one module: [threw, failedIn, body, returned] where
\* body is mod.ast.program.body afterwards and returned the tree returned
buildModule(anon, m, b) ==
  LET meta == buildDependenciesMeta(m)
      strict == <<UseStrict>> \o b
      fns == buildSetterFunctionDeclarations(m)
      wrapperBlock ==
        <<buildImportedVariables(m)>> \o fns.fns \o
        <<returnStatement(objectExpression(<<
            property("init", literal(Str("setters")), arrayExpression(meta.setters)),
            property("init", literal(Str("execute")),
                     functionExpression(Null, <<>>, blockStatement(strict)))>>))>>
      wrapper == functionExpression(Null, <<identifier("__es6_export__")>>,
                                    blockStatement(wrapperBlock))
      program == <<registerCall(anon, m, arrayExpression(meta.deps), wrapper)>>
  IN IF meta.threw
     THEN [threw |-> TRUE, failedIn |-> "buildDependenciesMeta", body |-> b,
           returned |-> <<>>]
     ELSE IF fns.threw
     THEN [threw |-> TRUE, failedIn |-> "buildSetterFunctionDeclarations",
           body |-> strict, returned |-> <<>>]
     ELSE [threw |-> FALSE, failedIn |-> "", body |-> program,
           returned |-> <<[program |-> [body |-> program],
                           filename |-> m.relativePath]>>]

\* ---------------------------------------------- running the generated code
Names == {"a", "b", "c", "d", "f", "K", "g", "x", "ns", "z", "w", "v", "m", "q",
          "a$$", "b$$", "ghost$$", "__es6_export__"}

\* the value of dependency object o's property key
Exported(o, key) == [t |-> "export", n |-> 0, s |-> o.s \o "." \o key]
\* the export object the loader passes to the setter named id
ExportsOf(id) == [t |-> "object", n |-> 0, s |-> id]

Event(kind, name, value) == [kind |-> kind, name |-> name, value |-> value]

\* st = [env, declared, events, threw]; the result is [val, st]
RECURSIVE Eval(_, _)
Eval(e, st) ==
  IF st.threw THEN [val |-> Undefined, st |-> st]
  ELSE CASE e.type = "Literal" -> [val |-> e.value, st |-> st]
    [] e.type = "Identifier" ->
         IF e.name \in st.declared THEN [val |-> st.env[e.name], st |-> st]
         ELSE [val |-> Undefined, st |-> [st EXCEPT !.threw = TRUE]]
    [] e.type = "FunctionExpression" ->
         [val |-> Fun(IF e.id = Null THEN "(anonymous)" ELSE e.id.name), st |-> st]
    [] e.type = "BinaryExpression" ->
         LET l == Eval(e.left, st)
             r == Eval(e.right, l.st)
         IN [val |-> IF e.operator = "+" THEN Plus(l.val, r.val)
                     ELSE Minus(l.val, r.val),
             st |-> r.st]
    [] e.type = "MemberExpression" ->
         LET o == Eval(e.object, st)
         IN [val |-> Exported(o.val, e.property.value.s), st |-> o.st]
    [] e.type = "AssignmentExpression" ->
         LET r == Eval(e.right, st)
         IN IF r.st.threw THEN r
            ELSE IF e.left.name \notin r.st.declared
            THEN [val |-> Undefined, st |-> [r.st EXCEPT !.threw = TRUE]]
            ELSE [val |-> r.val,
                  st |-> [r.st EXCEPT !.env[e.left.name] = r.val,
                            !.events = Append(@, Event("write", e.left.name, r.val))]]
    [] e.type = "UpdateExpression" ->
         IF e.argument.name \notin st.declared
         THEN [val |-> Undefined, st |-> [st EXCEPT !.threw = TRUE]]
         ELSE LET old == ToNumber(st.env[e.argument.name])
                  new == IF e.operator = "++" THEN Plus(old, Num(1))
                         ELSE Minus(old, Num(1))
              IN [val |-> IF e.prefix THEN new ELSE old,
                  st |-> [st EXCEPT !.env[e.argument.name] = new,
                            !.events = Append(@, Event("write", e.argument.name, new))]]
    [] e.type = "SequenceExpression" ->
         LET first == Eval(e.expressions[1], st)
         IN Eval(e.expressions[2], first.st)
    [] e.type = "CallExpression" ->
         \* a call of the notify callback, which returns the value it is given
         LET v == Eval(e.arguments[2], st)
         IN IF v.st.threw THEN v
            ELSE [val |-> v.val,
                  st |-> [v.st EXCEPT !.events =
                            Append(@, Event("notify", e.arguments[1].value.s, v.val))]]
    [] OTHER -> [val |-> Undefined, st |-> st]

\* the declarators of a var statement, left to right
RECURSIVE ExecDeclarators(_, _)
ExecDeclarators(decs, st) ==
  IF decs = <<>> \/ st.threw THEN st
  ELSE LET dec == Head(decs)
       IN IF dec.init = Null THEN ExecDeclarators(Tail(decs), st)
          ELSE LET r == Eval(dec.init, st)
               IN ExecDeclarators(Tail(decs),
                    IF r.st.threw THEN r.st
                    ELSE [r.st EXCEPT !.env[dec.id.name] = r.val])

\* one statement: [val, st], val the completion value
Exec(stmt, st) ==
  CASE stmt.type = "ExpressionStatement" -> Eval(stmt.expression, st)
    [] stmt.type = "VariableDeclaration" ->
         [val |-> Undefined, st |-> ExecDeclarators(stmt.declarations, st)]
    [] stmt.type = "ClassDeclaration" ->
         [val |-> Undefined, st |-> [st EXCEPT !.env[stmt.id.name] = Fun(stmt.id.name)]]
    [] OTHER -> [val |-> Undefined, st |-> st]

RECURSIVE ExecAll(_, _)
ExecAll(stmts, st) ==
  IF stmts = <<>> \/ st.threw THEN st
  ELSE ExecAll(Tail(stmts), Exec(Head(stmts), st).st)

\* the parts of the registration a built body holds
Registration(b) == b[1].expression
Wrapper(b) == Registration(b).arguments[Len(Registration(b).arguments)]
WrapperBlock(b) == Wrapper(b).body.body
Descriptor(b) == WrapperBlock(b)[Len(WrapperBlock(b))].argument
SettersOf(b) == Descriptor(b).properties[1].value.elements
ExecuteBody(b) == Descriptor(b).properties[2].value.body.body
DepsOf(b) ==
  Registration(b).arguments[Len(Registration(b).arguments) - 1].elements
SetterFunctions(b) ==
  SelectSeq(WrapperBlock(b), LAMBDA n : n.type = "FunctionDeclaration")

\* names a statement list declares with var, function or class
RECURSIVE DeclaredBy(_)
DeclaredBy(stmts) ==
  IF stmts = <<>> THEN {}
  ELSE LET n == Head(stmts)
           here == CASE n.type = "VariableDeclaration" ->
                          {(IF n.declarations[i].type = "Identifier"
                            THEN n.declarations[i] ELSE n.declarations[i].id).name :
                             i \in 1..Len(n.declarations)}
                     [] n.type \in {"FunctionDeclaration", "ClassDeclaration"} ->
                          {n.id.name}
                     [] OTHER -> {}
       IN here \cup DeclaredBy(Tail(stmts))

FunctionsOf(stmts) ==
  {stmts[i].id.name : i \in {j \in 1..Len(stmts) : stmts[j].type = "FunctionDeclaration"}}

\* the loader calls the wrapper, then every setter with its dependency's
\* export object: the state in which execute starts
RECURSIVE CallSetters(_, _, _)
CallSetters(setters, fns, st) ==
  IF setters = <<>> \/ st.threw THEN st
  ELSE LET id == Head(setters).name
           fn == SelectSeq(fns, LAMBDA f : f.id.name = id)
       IN IF fn = <<>> THEN [st EXCEPT !.threw = TRUE]
          ELSE CallSetters(Tail(setters), fns,
                 ExecAll(fn[1].body.body, [st EXCEPT !.env["m"] = ExportsOf(id)]))

Loaded(b) ==
  LET scope == DeclaredBy(WrapperBlock(b)) \cup DeclaredBy(ExecuteBody(b))
               \cup {"m", "__es6_export__"}
      hoisted == FunctionsOf(WrapperBlock(b)) \cup FunctionsOf(ExecuteBody(b))
  IN CallSetters(SettersOf(b), SetterFunctions(b),
       [env |-> [n \in Names |-> IF n \in hoisted THEN Fun(n) ELSE Undefined],
        declared |-> scope, events |-> <<>>, threw |-> FALSE])

\* ------------------------------------------------------------ the inputs
Mutations == {Assign, PreInc, PreDec, PostInc, PostDec}
DeclaresA == {VarA, ExportVarA, ExportVarStr}
RefersToA == Mutations \cup {ExportListAB, ExportListA, ExportListTwo}

Injective(s) == \A i, j \in 1..Len(s) : s[i] = s[j] => i = j

\* a body the parser accepts: no declaration twice, no binding or export name
\* twice, at most one default export, a is declared where it is used
ValidBody(b) ==
  /\ \A i, j \in 1..Len(b) : (b[i] = b[j] /\ i # j) => b[i] \in Mutations
  /\ Cardinality({i \in 1..Len(b) : b[i] \in DeclaresA}) <= 1
  /\ (\E i \in 1..Len(b) : b[i] \in RefersToA) => (\E i \in 1..Len(b) : b[i] \in DeclaresA)
  /\ Cardinality({i \in 1..Len(b) : IsExport(b[i]) /\ b[i].default}) <= 1
  /\ Injective(Analyze(b, "none").exports.names)
  /\ Injective(Analyze(b, "none").imports.names)

Bodies(vocabulary, max) ==
  {b \in UNION {[1..n -> vocabulary] : n \in 0..max} : ValidBody(b)}

Glitches == {"exportName", "exportModule", "importModule"}
Configs == {NoConfig, [given |-> TRUE, anonymous |-> FALSE],
            [given |-> TRUE, anonymous |-> TRUE]}

\* the modules formatted: consistent ones of up to MaxBody statements under
\* the default configuration; short ones under every configuration and
\* with every upstream inconsistency
Init ==
  /\ \/ /\ config = NoConfig
        /\ \E src \in Bodies(RuntimeVocabulary, MaxBody)
                       \cup Bodies(StructureVocabulary, MaxBody) :
             mod = Analyze(src, "none")
     \/ /\ config \in Configs
        /\ \E src \in Bodies(StructureVocabulary, MaxShortBody) :
             \E glitch \in Glitches \cup {"none"} : mod = Analyze(src, glitch)
  /\ anonymous = SystemFormatter(config)
  /\ body = mod.source
  /\ cursor = 1
  /\ phase = "rewrite"
  /\ failedIn = ""
  /\ returned = <<>>
  /\ env = [n \in Names |-> Undefined]
  /\ declared = {}
  /\ events = <<>>
  /\ completion = Undefined
  /\ origin = [i \in 1..Len(mod.source) |-> i]

\* --------------------------------------------------------- the rewriter
\* Replacement.swaps / Replacement.removes at the cursor
Replaced(b, at, nodes) == SubSeq(b, 1, at - 1) \o nodes \o SubSeq(b, at + 1, Len(b))

\* a local variable some export of the module is bound to
IsExportedLocal(m, name) ==
  \E i \in 1..Len(m.exports.declarations) :
    LET d == m.exports.declarations[i]
    IN /\ d.source = NoModule
       /\ \E j \in 1..Len(d.specifiers) : d.specifiers[j].from = name

Target(e) ==
  IF e.type = "AssignmentExpression" THEN e.left.name
  ELSE IF e.type = "UpdateExpression" THEN e.argument.name
  ELSE ""

Visiting == phase = "rewrite" /\ cursor <= Len(body)
Untouched == UNCHANGED <<config, anonymous, mod, returned, env, declared, events, completion>>

VisitImportDeclaration ==
  /\ Visiting
  /\ body[cursor].type = "ImportDeclaration"
  /\ body' = Replaced(body, cursor, processImportDeclaration(mod, body[cursor]))
  /\ origin' = Replaced(origin, cursor, <<>>)
  /\ UNCHANGED <<cursor, phase, failedIn>>
  /\ Untouched

VisitExportDeclaration ==
  /\ Visiting
  /\ body[cursor].type = "ExportDeclaration"
  /\ ~body[cursor].default
  /\ LET r == processExportDeclaration(mod, body[cursor])
     IN IF r.threw
        THEN /\ phase' = "failed"
             /\ failedIn' = "processExportDeclaration"
             /\ UNCHANGED <<body, cursor, origin>>
        ELSE /\ body' = Replaced(body, cursor, r.nodes)
             /\ origin' = Replaced(origin, cursor,
                                   [i \in 1..Len(r.nodes) |-> origin[cursor]])
             /\ cursor' = cursor + Len(r.nodes)
             /\ UNCHANGED <<phase, failedIn>>
  /\ Untouched

VisitDefaultExport ==
  /\ Visiting
  /\ body[cursor].type = "ExportDeclaration"
  /\ body[cursor].default
  /\ LET nodes == defaultExport(mod, body[cursor].declaration)
     IN /\ body' = Replaced(body, cursor, nodes)
        /\ origin' = Replaced(origin, cursor,
                              [i \in 1..Len(nodes) |-> origin[cursor]])
        /\ cursor' = cursor + Len(nodes)
  /\ UNCHANGED <<phase, failedIn>>
  /\ Untouched

VisitExportReassignment ==
  /\ Visiting
  /\ body[cursor].type = "ExpressionStatement"
  /\ IsExportedLocal(mod, Target(body[cursor].expression))
  /\ LET r == processExportReassignment(mod, body[cursor].expression)
     IN body' = IF r = Null THEN body
                ELSE [body EXCEPT ![cursor].expression = r]
  /\ cursor' = cursor + 1
  /\ UNCHANGED <<phase, failedIn, origin>>
  /\ Untouched

VisitDeclaration ==
  /\ Visiting
  /\ body[cursor].type \in {"VariableDeclaration", "FunctionDeclaration", "ClassDeclaration"}
  /\ processDeclaration(mod, body[cursor]) = Null
  /\ cursor' = cursor + 1
  /\ UNCHANGED <<body, phase, failedIn, origin>>
  /\ Untouched

\* a statement that touches no exported binding: no formatter method is called
VisitOther ==
  /\ Visiting
  /\ body[cursor].type = "ExpressionStatement"
  /\ ~IsExportedLocal(mod, Target(body[cursor].expression))
  /\ cursor' = cursor + 1
  /\ UNCHANGED <<body, phase, failedIn, origin>>
  /\ Untouched

\* ---------------------------------------------------------------- build
Build ==
  /\ phase = "rewrite"
  /\ cursor > Len(body)
  /\ LET r == buildModule(anonymous, mod, body)
     IN /\ body' = r.body
        /\ returned' = r.returned
        /\ failedIn' = r.failedIn
        /\ phase' = IF r.threw THEN "failed" ELSE "built"
  /\ cursor' = 1
  /\ UNCHANGED <<config, anonymous, mod, env, declared, events, completion, origin>>

\* ----------------------------------------------------------- the loader
\* System.register's wrapper is called and the setters are wired
Load ==
  /\ phase = "built"
  /\ LET st == Loaded(body)
     IN /\ env' = st.env
        /\ declared' = st.declared
        /\ events' = st.events
        /\ phase' = IF st.threw THEN "threw" ELSE "running"
  /\ UNCHANGED <<config, anonymous, mod, body, cursor, failedIn, returned,
                 completion, origin>>

\* execute() runs its next statement
Step ==
  /\ phase = "running"
  /\ cursor <= Len(ExecuteBody(body))
  /\ LET r == Exec(ExecuteBody(body)[cursor],
                   [env |-> env, declared |-> declared, events |-> events,
                    threw |-> FALSE])
     IN /\ env' = r.st.env
        /\ events' = r.st.events
        /\ completion' = r.val
        /\ phase' = IF r.st.threw THEN "threw"
                    ELSE IF cursor = Len(ExecuteBody(body)) THEN "done"
                    ELSE "running"
  /\ cursor' = cursor + 1
  /\ UNCHANGED <<config, anonymous, mod, body, failedIn, returned, declared, origin>>

Next ==
  \/ VisitImportDeclaration
  \/ VisitExportDeclaration
  \/ VisitDefaultExport
  \/ VisitExportReassignment
  \/ VisitDeclaration
  \/ VisitOther
  \/ Build
  \/ Load
  \/ Step

Spec == Init /\ [][Next]_vars

\* ====================================================================
\* Properties
\* ====================================================================
Range(s) == {s[i] : i \in 1..Len(s)}
Running == phase \in {"running", "done"}
Built == phase \in {"built", "running", "done", "threw"}

\* the source statement the execute body's statement j comes from
\* (statement 1 is the strict-mode marker)
SourceOf(j) == mod.source[origin[j - 1]]

\* source statement k has run: execute is past every statement it became
HasRun(k) == \A j \in 1..Len(origin) : origin[j] = k => j + 1 < cursor

Notifications(name) ==
  SelectSeq(events, LAMBDA e : e.kind = "notify" /\ e.name = name)
Writes(name) ==
  SelectSeq(events, LAMBDA e : e.kind = "write" /\ e.name = name)
\* the value the loader holds for an export
Slot(name) ==
  IF Notifications(name) = <<>> THEN Undefined
  ELSE Notifications(name)[Len(Notifications(name))].value

\* the export statements of local bindings, and what running one notifies
IsLocalExport(node) == IsExport(node) /\ ~node.default /\ ~HasSource(node)
InitialNotifies(node, local) ==
  IF node.declaration # Null /\ node.declaration.type = "VariableDeclaration"
  THEN IF \E i \in 1..Len(node.declaration.declarations) :
            /\ node.declaration.declarations[i].id.name = local
            /\ node.declaration.declarations[i].init # Null
       THEN 1 ELSE 0
  ELSE 1

\* the statement that declares the local is at or before source statement k
DeclaredUpTo(k, local) ==
  \E i \in 1..k :
    LET n == IF IsExport(mod.source[i]) THEN mod.source[i].declaration
             ELSE mod.source[i]
    IN local \in DeclaredBy(<<n>>)

\* every assignment and update of the body comes after source statement k
MutationsFollow(k) == \A i \in 1..k : mod.source[i] \notin Mutations

HoldsNumbers == \A i \in 1..Len(mod.source) : mod.source[i] # ExportVarStr

\* C1: once the export statement of a local binding has run, after any
\* assignments and updates of the local variable, every one of them has
\* notified once under the binding's export name, and the value last
\* notified under that name is the variable's current value.  (Stated for
\* variables holding numbers; C2 is about the values an update notifies.)
C1_LiveBinding ==
  (Running /\ HoldsNumbers) =>
    \A k \in 1..Len(mod.source) :
      (IsLocalExport(mod.source[k]) /\ HasRun(k) /\ MutationsFollow(k)) =>
        \A sp \in Range(ExportSpecifiers(mod.source[k])) :
          DeclaredUpTo(k, sp.from) =>
            /\ Slot(sp.name) = env[sp.from]
            /\ Len(Notifications(sp.name)) =
                 Len(Writes(sp.from)) + InitialNotifies(mod.source[k], sp.from)

\* the same, for bindings exported under the local variable's own name and
\* holding numbers
C1_SameNameNumeric ==
  Running =>
    \A k \in 1..Len(mod.source) :
      (IsLocalExport(mod.source[k]) /\ HasRun(k) /\ MutationsFollow(k)) =>
        \A sp \in Range(ExportSpecifiers(mod.source[k])) :
          (/\ sp.name = sp.from
           /\ DeclaredUpTo(k, sp.from)
           /\ HoldsNumbers) =>
            /\ Slot(sp.name) = env[sp.from]
            /\ Len(Notifications(sp.name)) =
                 Len(Writes(sp.from)) + InitialNotifies(mod.source[k], sp.from)

\* execute is about to run what a postfix update of an exported local became
AtPostfixUpdate ==
  /\ phase = "running"
  /\ cursor >= 2
  /\ cursor <= Len(ExecuteBody(body))
  /\ SourceOf(cursor).type = "ExpressionStatement"
  /\ SourceOf(cursor).expression.type = "UpdateExpression"
  /\ ~SourceOf(cursor).expression.prefix
  /\ IsExportedLocal(mod, SourceOf(cursor).expression.argument.name)

\* C2: evaluating what a postfix x++ / x-- on an exported binding became
\* yields x's value before the update, notifies exactly once, with the value
\* x has after the update (the result plus or minus one), writes x exactly
\* once, and notifies before it writes.
C2_PostfixUpdate ==
  [][AtPostfixUpdate =>
       LET x == SourceOf(cursor).expression.argument.name
           result == ToNumber(env[x])
           n == Len(events)
       IN /\ completion' = result
          /\ env'[x] = IF SourceOf(cursor).expression.operator = "++"
                       THEN Plus(result, Num(1)) ELSE Minus(result, Num(1))
          /\ Len(events') = n + 2
          /\ events'[n + 1].kind = "notify"
          /\ events'[n + 1].value = env'[x]
          /\ events'[n + 2] = Event("write", x, env'[x])]_vars

\* the same for a variable holding a number
C2_PostfixUpdateOfNumber ==
  [][(AtPostfixUpdate /\ HoldsNumbers) =>
       LET x == SourceOf(cursor).expression.argument.name
           result == ToNumber(env[x])
           n == Len(events)
       IN /\ completion' = result
          /\ env'[x] = IF SourceOf(cursor).expression.operator = "++"
                       THEN Plus(result, Num(1)) ELSE Minus(result, Num(1))
          /\ Len(events') = n + 2
          /\ events'[n + 1].kind = "notify"
          /\ events'[n + 1].value = env'[x]
          /\ events'[n + 2] = Event("write", x, env'[x])]_vars

\* the dependency Modules in the order imports.modules, then exports.modules
CitedModules == mod.imports.modules \o mod.exports.modules
FirstAt(m) == CHOOSE i \in 1..Len(CitedModules) :
                /\ CitedModules[i] = m
                /\ \A j \in 1..(i - 1) : CitedModules[j] # m
AuthoredPaths(m) ==
  {d.sourcePath : d \in {d \in Range(mod.imports.declarations)
                               \cup Range(mod.exports.declarations) : d.source = m}}

\* C3: whenever buildDependenciesMeta returns, setters and deps have the same
\* length, hold one entry for every distinct Module of imports.modules and
\* exports.modules and no other, in the order of first occurrence, and
\* deps[i] is a path authored for the Module whose id is setters[i].
C3_DependenciesMeta ==
  Built =>
    LET setters == SettersOf(body)
        deps == DepsOf(body)
    IN /\ Len(setters) = Len(deps)
       /\ \A m \in Range(CitedModules) :
            Cardinality({i \in 1..Len(setters) : setters[i].name = m.id}) = 1
       /\ \A i \in 1..Len(setters) :
            \E m \in Range(CitedModules) :
              /\ setters[i] = identifier(m.id)
              /\ deps[i].type = "Literal"
              /\ deps[i].value.s \in AuthoredPaths(m)
              /\ getModule(deps[i].value.s) = m
              /\ \A j \in 1..(i - 1) :
                   \E l \in Range(CitedModules) :
                     setters[j].name = l.id /\ FirstAt(l) < FirstAt(m)

\* a module imports from A and B and re-exports from A, under another path
C3_Witness ==
  /\ phase = "built"
  /\ mod.imports.modules = <<ModB, ModA>>
  /\ mod.exports.modules = <<ModA>>
  /\ SettersOf(body) = <<identifier("b$$"), identifier("a$$")>>
  /\ DepsOf(body) = <<literal(Str("./b")), literal(Str("./a"))>>

\* C4: in a built registration every identifier of the setters array names
\* exactly one setter function declared in the wrapper, and every setter
\* function declared is listed in the setters array.
C4_SettersAreDeclared ==
  Built =>
    /\ \A i \in 1..Len(SettersOf(body)) :
         Cardinality({j \in 1..Len(SetterFunctions(body)) :
                        SetterFunctions(body)[j].id = SettersOf(body)[i]}) = 1
    /\ \A j \in 1..Len(SetterFunctions(body)) :
         \E i \in 1..Len(SettersOf(body)) :
           SettersOf(body)[i] = SetterFunctions(body)[j].id

\* the same where every re-export statement lists a binding
C4_WhenReExportsListBindings ==
  (Built /\ \A i \in 1..Len(mod.source) : mod.source[i] # ReExportNone) =>
    /\ \A i \in 1..Len(SettersOf(body)) :
         Cardinality({j \in 1..Len(SetterFunctions(body)) :
                        SetterFunctions(body)[j].id = SettersOf(body)[i]}) = 1
    /\ \A j \in 1..Len(SetterFunctions(body)) :
         \E i \in 1..Len(SettersOf(body)) :
           SettersOf(body)[i] = SetterFunctions(body)[j].id

\* the specifier records of a collection, in names order
SpecifiersOf(collection) ==
  Concat([i \in 1..Len(collection.declarations) |->
    [j \in 1..Len(collection.declarations[i].specifiers) |->
      [name |-> collection.declarations[i].specifiers[j].name,
       from |-> collection.declarations[i].specifiers[j].from,
       source |-> collection.declarations[i].source]]])

ExpectedAssignment(sp) ==
  expressionStatement(assignmentExpression("=", identifier(sp.name),
    IF sp.from = "" THEN identifier("m")
    ELSE memberExpression(identifier("m"), literal(Str(sp.from)), TRUE)))
ExpectedNotify(sp) ==
  expressionStatement(notifyCall(sp.name,
    memberExpression(identifier("m"), literal(Str(sp.from)), TRUE)))

\* C5: the body of the setter of dependency D is one assignment for every
\* import specifier whose source is D, in imports.names order (local =
\* m[from], or local = m for a namespace binding), then one notify call
\* notify(exportName, m[from]) for every re-export specifier whose source is
\* D, and nothing else.
C5_SetterBodies ==
  Built =>
    \A j \in 1..Len(SetterFunctions(body)) :
      LET fn == SetterFunctions(body)[j]
          imported == SelectSeq(SpecifiersOf(mod.imports),
                                LAMBDA sp : sp.source.id = fn.id.name)
          reexported == SelectSeq(SpecifiersOf(mod.exports),
                                  LAMBDA sp : sp.source.id = fn.id.name)
      IN /\ fn.params = <<identifier("m")>>
         /\ fn.body.body =
              [i \in 1..Len(imported) |-> ExpectedAssignment(imported[i])]
              \o [i \in 1..Len(reexported) |-> ExpectedNotify(reexported[i])]

\* the setter of A assigns a namespace binding and republishes x as w, the
\* setter of B assigns z from y
C5_Witness ==
  /\ phase = "built"
  /\ \E j \in 1..Len(SetterFunctions(body)) :
       /\ SetterFunctions(body)[j].id.name = "a$$"
       /\ SetterFunctions(body)[j].body.body =
            <<expressionStatement(assignmentExpression("=", identifier("ns"),
                                                       identifier("m"))),
              expressionStatement(notifyCall("w",
                memberExpression(identifier("m"), literal(Str("x")), TRUE)))>>
  /\ \E j \in 1..Len(SetterFunctions(body)) :
       /\ SetterFunctions(body)[j].id.name = "b$$"
       /\ Len(SetterFunctions(body)[j].body.body) = 1

NotificationsIn(evs, name) ==
  SelectSeq(evs, LAMBDA e : e.kind = "notify" /\ e.name = name)

\* execute is about to run what an `export var` statement became
AtExportVar ==
  /\ phase = "running"
  /\ cursor >= 2
  /\ cursor <= Len(ExecuteBody(body))
  /\ IsExport(SourceOf(cursor))
  /\ SourceOf(cursor).declaration # Null
  /\ SourceOf(cursor).declaration.type = "VariableDeclaration"

RECURSIVE CallsIn(_)
CallsIn(e) ==
  CASE e.type = "CallExpression" ->
         IF e.callee = identifier("__es6_export__")
         THEN <<e>> \o CallsIn(e.arguments[2]) ELSE <<>>
    [] e.type = "SequenceExpression" ->
         Concat([i \in 1..Len(e.expressions) |-> CallsIn(e.expressions[i])])
    [] e.type = "AssignmentExpression" -> CallsIn(e.right)
    [] e.type = "BinaryExpression" -> CallsIn(e.left) \o CallsIn(e.right)
    [] OTHER -> <<>>

\* the notify calls in a statement list
NotifyCalls(stmts) ==
  Concat([i \in 1..Len(stmts) |->
    CASE stmts[i].type = "ExpressionStatement" -> CallsIn(stmts[i].expression)
      [] stmts[i].type = "VariableDeclaration" ->
           Concat([j \in 1..Len(stmts[i].declarations) |->
             IF stmts[i].declarations[j].type = "VariableDeclarator"
             THEN CallsIn(stmts[i].declarations[j].init) ELSE <<>>])
      [] OTHER -> <<>>])

\* no imports, and the only export is an anonymous default function or class
OnlyAnonymousDefault ==
  /\ mod.imports.declarations = <<>>
  /\ Len(mod.exports.declarations) = 1
  /\ mod.exports.declarations[1].node.default
  /\ mod.exports.declarations[1].node.declaration.type
       \in {"FunctionExpression", "ClassExpression"}
  /\ mod.exports.declarations[1].node.declaration.id = Null

\* C7: for such a module the execute body of the registration holds exactly
\* one notify call, notify("default", <the anonymous function>), the wrapper
\* holds no variable declaration, and the setters list is empty.
C7_AnonymousDefault ==
  (Built /\ OnlyAnonymousDefault) =>
    /\ NotifyCalls(ExecuteBody(body)) =
         <<notifyCall("default", mod.exports.declarations[1].node.declaration)>>
    /\ \A i \in 1..Len(WrapperBlock(body)) :
         WrapperBlock(body)[i].type # "VariableDeclaration"
    /\ SettersOf(body) = <<>>

\* README's example module has been built and run
C7_Witness ==
  /\ phase = "done"
  /\ mod.source = <<ExportDefaultAnonymous>>
  /\ events = <<Event("notify", "default", Fun("(anonymous)"))>>

\* C8: after build the program body is one statement, the System.register
\* call; its arguments are the name literal, the array of dependency paths
\* and the wrapper function, without the name literal in anonymous mode; the
\* strict-mode marker is the first statement of execute's body.
C8_Registration ==
  Built =>
    /\ Len(body) = 1
    /\ returned = <<[program |-> [body |-> body], filename |-> mod.relativePath]>>
    /\ body[1].type = "ExpressionStatement"
    /\ body[1].expression.type = "CallExpression"
    /\ body[1].expression.callee =
         memberExpression(identifier("System"), identifier("register"), FALSE)
    /\ LET args == body[1].expression.arguments
           rest == IF anonymous THEN args ELSE Tail(args)
       IN /\ Len(args) = IF anonymous THEN 2 ELSE 3
          /\ ~anonymous => args[1] = literal(Str(mod.name))
          /\ rest[1].type = "ArrayExpression"
          /\ \A i \in 1..Len(rest[1].elements) :
               /\ rest[1].elements[i].type = "Literal"
               /\ getModule(rest[1].elements[i].value.s) \in Range(CitedModules)
          /\ rest[2].type = "FunctionExpression"
          /\ rest[2].params = <<identifier("__es6_export__")>>
    /\ ExecuteBody(body)[1] = UseStrict

\* an anonymous registration with a dependency
C8_Witness ==
  /\ phase = "built"
  /\ anonymous
  /\ Len(body[1].expression.arguments) = 2
  /\ Len(body[1].expression.arguments[1].elements) > 0

IsRegistration(node) ==
  /\ node.type = "ExpressionStatement"
  /\ node.expression.type = "CallExpression"
  /\ node.expression.callee.type = "MemberExpression"
  /\ node.expression.callee.object = identifier("System")

\* the export statement under the cursor wraps a declaration of a kind
\* processExportDeclaration does not know
UnrecognizedDeclaration ==
  /\ Visiting
  /\ IsExport(body[cursor])
  /\ ~body[cursor].default
  /\ body[cursor].declaration # Null
  /\ body[cursor].declaration.type \notin
       {"FunctionDeclaration", "ClassDeclaration", "VariableDeclaration"}

\* a Module of imports.modules or exports.modules that no declaration of the
\* same collection cites as its source
UncitedModule ==
  \/ \E m \in Range(mod.imports.modules) :
       \A d \in Range(mod.imports.declarations) : d.source # m
  \/ \E m \in Range(mod.exports.modules) :
       \A d \in Range(mod.exports.declarations) : d.source # m

\* a name of exports.names without specifier record
NameWithoutSpecifier ==
  \E n \in Range(mod.exports.names) : findSpecifierByName(mod.exports, n) = Null

\* C9 as stated: when formatting a module fails, no tree is returned, no
\* registration call is in the program body, and the step that failed leaves
\* the program body as it found it.
C9_NothingLeftApplied ==
  [][phase' = "failed" =>
       /\ returned' = <<>>
       /\ \A i \in 1..Len(body') : ~IsRegistration(body'[i])
       /\ body' = body]_vars

\* C9, amended: a module fails exactly on an unrecognized declaration kind
\* (in processExportDeclaration), a Module no declaration cites (in
\* buildDependenciesMeta) or an export name without specifier record (in
\* buildSetterFunctionDeclarations); then no tree is returned, no
\* registration call is in the program body and nothing more is done to the
\* module; the program body is as the failing step found it, except that a
\* failure in buildSetterFunctionDeclarations leaves the strict marker build
\* has already prepended.
C9_FailureAborts ==
  /\ [][phase' = "failed" =>
          /\ returned' = <<>>
          /\ \A i \in 1..Len(body') : ~IsRegistration(body'[i])
          /\ body' = IF failedIn' = "buildSetterFunctionDeclarations"
                     THEN <<UseStrict>> \o body ELSE body
          /\ CASE failedIn' = "processExportDeclaration" -> UnrecognizedDeclaration
               [] failedIn' = "buildDependenciesMeta" -> UncitedModule
               [] failedIn' = "buildSetterFunctionDeclarations" ->
                    ~UncitedModule /\ NameWithoutSpecifier
               [] OTHER -> FALSE]_vars
  /\ [][phase = "failed" => FALSE]_vars
  /\ [][(UnrecognizedDeclaration
         \/ (phase = "rewrite" /\ cursor > Len(body)
             /\ (UncitedModule \/ NameWithoutSpecifier)))
        => phase' = "failed"]_vars

\* build has failed on an export name without specifier record, after the
\* rewrite had turned `export {a, a as d}` into two notify calls
C9_Witness ==
  /\ phase = "failed"
  /\ failedIn = "buildSetterFunctionDeclarations"
  /\ mod.source = <<VarA, ExportListTwo>>
  /\ body = <<UseStrict, VarA,
              expressionStatement(notifyCall("a", IdA)),
              expressionStatement(notifyCall("d", IdA))>>
  /\ returned = <<>>

\* the statement under the cursor is an export list without source
AtBareExportList ==
  /\ Visiting
  /\ IsLocalExport(body[cursor])
  /\ body[cursor].declaration = Null

\* the names the export lists without source publish
BareListNames ==
  UNION {{sp.name : sp \in Range(d.specifiers)} :
           d \in {d \in Range(mod.exports.declarations) :
                    d.source = NoModule /\ d.node.declaration = Null
                    /\ ~d.node.default}}

Citing(m) ==
  SelectSeq(mod.source,
            LAMBDA n : (IsImport(n) \/ IsExport(n)) /\ HasSource(n)
                       /\ getModule(n.source.value.s) = m)

\* the Modules that both an import and a re-export of the module cite
SharedModules ==
  {m \in Range(mod.imports.modules) : m \in Range(mod.exports.modules)}

\* the paths listed in deps for Module m
EntriesOf(m) ==
  SelectSeq([i \in 1..Len(DepsOf(body)) |->
              [setter |-> SettersOf(body)[i].name, path |-> DepsOf(body)[i].value.s]],
            LAMBDA e : e.setter = m.id)

\* C11 as stated: a Module cited by an import and by a re-export gets one
\* shared entry, whose path is the one authored in the first statement in
\* source order that cites it, be it the import or the re-export.
C11_FirstInSourceOrder ==
  Built =>
    \A m \in SharedModules :
      /\ Len(EntriesOf(m)) = 1
      /\ EntriesOf(m)[1].path = Citing(m)[1].source.value.s

\* C11, amended: a Module cited by an import and by a re-export gets one
\* shared entry, whose path is the one authored in the first import
\* declaration that cites it, also when a re-export that cites it stands
\* earlier in the source.
C11_FirstImportDeclaration ==
  Built =>
    \A m \in SharedModules :
      /\ Len(EntriesOf(m)) = 1
      /\ EntriesOf(m)[1].path =
           SelectSeq(Citing(m), IsImport)[1].source.value.s

\* `export {x as w} from "./a.js"; import {x} from "./a";` has been built: the
\* one entry carries the path of the import, which stands second
C11_Witness ==
  /\ phase = "built"
  /\ mod.source = <<ReExportXW, ImportX>>
  /\ SharedModules = {ModA}
  /\ SettersOf(body) = <<identifier("a$$")>>
  /\ DepsOf(body) = <<literal(Str("./a"))>>

\* the statement at position j of execute's body stems from a re-export with
\* a source
FromSourcedReExport(j) ==
  /\ j >= 2
  /\ IsExport(SourceOf(j))
  /\ HasSource(SourceOf(j))

\* the bindings the module declares itself: its hoisted import variables and
\* what execute's body declares
OwnBindings == Range(mod.imports.names) \cup DeclaredBy(ExecuteBody(body))

\* C12: in the registration no statement of execute's body that stems from a
\* sourced re-export holds a notify call, and every identifier passed as the
\* value of a notify call in execute's body names a binding the module
\* declares itself (a local declaration or a hoisted import variable).
C12_ReExportsOnlyInSetters ==
  Built =>
    /\ \A j \in 1..Len(ExecuteBody(body)) :
         FromSourcedReExport(j) => NotifyCalls(<<ExecuteBody(body)[j]>>) = <<>>
    /\ \A c \in Range(NotifyCalls(ExecuteBody(body))) :
         c.arguments[2].type = "Identifier" =>
           c.arguments[2].name \in OwnBindings

====
